---- MODULE Spec2Model ----
(***************************************************************************)
(* State-machine model of the timeline core of the Frigate card            *)
(* (src/src/components/timeline-core.ts, FrigateCardTimelineCore).         *)
(*                                                                         *)
(* Time is counted in ticks, the resolution of a Date; TicksPerSecond      *)
(* stands for the 1000 ms of a second.  Every asynchronous handler is      *)
(* split at its awaits: a handler suspended on an await is a record in     *)
(* `tasks`, and its continuation is an action of its own, so that the      *)
(* events of the user and of the host interleave with it.                  *)
(***************************************************************************)
EXTENDS Integers, Sequences, FiniteSets, TLC

\* ------------------------------------------------------------------ bounds
\* Ticks in one second (the source's 1000 ms, scaled down).
TicksPerSecond == 2
\* Asynchronous handlers that may be suspended at the same time.
MaxTasks == 1

\* --------------------------------------------------------------- constants
NoTime == -1
NoId == "none"
NoWindow == [start |-> NoTime, end |-> NoTime]

Win(s, e) == [start |-> s, end |-> e]

\* timelineConfig.window_seconds
WindowSeconds == 2

\* ---------------------------------------------------------------- the media
\* The media the camera manager knows: two events (one still in progress,
\* with no end time) and one recording.
MediaIds == {"e1", "e2", "r1"}

MediaOf(id) ==
    CASE id = "e1" -> [kind |-> "event", start |-> 20, end |-> 22]
      [] id = "e2" -> [kind |-> "event", start |-> 40, end |-> NoTime]
      [] id = "r1" -> [kind |-> "recording", start |-> 28, end |-> 36]
      [] OTHER -> [kind |-> "none", start |-> NoTime, end |-> NoTime]

isEvent(id) == MediaOf(id).kind = "event"
isRecording(id) == MediaOf(id).kind = "recording"

\* ---------------------------------------------------------- window math
\* date-fns differenceInSeconds: whole seconds, truncated.
differenceInSeconds(later, earlier) == (later - earlier) \div TicksPerSecond

\* date-fns add/sub with {seconds: h2 / 2}, h2 in half ticks: the Date
\* constructor truncates the fractional tick (times here are positive).
addHalfTicks(t, h2) == t + (h2 \div 2)
subHalfTicks(t, h2) == t - ((h2 + 1) \div 2)

_getPrefetchWindow(w) ==
    LET delta == differenceInSeconds(w.end, w.start)
    IN  Win(w.start - delta * TicksPerSecond, w.end + delta * TicksPerSecond)

\* A variant of perfectWindowOf with a plausible slip: an event longer than
\* the configured window is shown from its start.
perfectWindowFromStart(m, S) ==
    IF m.kind = "event"
    THEN IF m.start # NoTime /\ m.end # NoTime
         THEN IF m.end - m.start > S
              THEN Win(m.start, m.start + S)
              ELSE LET gap == S - (m.end - m.start)
                   IN  Win(subHalfTicks(m.start, gap), addHalfTicks(m.end, gap))
         ELSE IF m.start # NoTime
              THEN Win(subHalfTicks(m.start, S), addHalfTicks(m.start, S))
              ELSE NoWindow
    ELSE IF m.kind = "recording" /\ m.start # NoTime /\ m.end # NoTime
         THEN Win(m.start, m.end)
         ELSE NoWindow

\* _getPerfectWindowFromMedia for the media m and a configured window of S
\* ticks (lines 707-746).
perfectWindowOf(m, S) ==
    IF m.kind = "event"
    THEN IF m.start # NoTime /\ m.end # NoTime
         THEN IF m.end - m.start > S
              THEN Win(m.end - S, m.end)
              ELSE LET gap == S - (m.end - m.start)
                   IN  Win(subHalfTicks(m.start, gap), addHalfTicks(m.end, gap))
         ELSE IF m.start # NoTime
              THEN Win(subHalfTicks(m.start, S), addHalfTicks(m.start, S))
              ELSE NoWindow
    ELSE IF m.kind = "recording" /\ m.start # NoTime /\ m.end # NoTime
         THEN Win(m.start, m.end)
         ELSE NoWindow

_getPerfectWindowFromMedia(id) ==
    perfectWindowOf(MediaOf(id), WindowSeconds * TicksPerSecond)

\* camera-manager/range rangesOverlap: closed intervals.
rangesOverlap(a, b) == a.start <= b.end /\ a.end >= b.start

\* ------------------------------------------------------------------ views
\* A View: its name, its query (kind and window), its query results (qr: the
\* results exist; results; selected), whether the results pass the camera
\* manager's freshness check, and its context (timeline.window,
\* mediaViewer.seek).  NoView is the unset `view` property.
MkView(name, qkind, qwin, qr, results, selected, fresh, ctxw, seek) ==
    [name |-> name, qkind |-> qkind, qwin |-> qwin, qr |-> qr,
     results |-> results, selected |-> selected, fresh |-> fresh,
     ctxw |-> ctxw, seek |-> seek]

NoView == MkView("none", "none", NoWindow, FALSE, {}, NoId, FALSE, NoWindow, NoTime)

\* View.is / View.isViewerView
isTimelineView(v) == v.name = "timeline"
isViewerView(v) == v.name = "media"

\* MediaQueriesClassifier.areRecordingQueries
areRecordingQueries(v) == v.qkind = "recording"

\* MediaQueriesResults.getSelectedResult / hasResults / hasSelectedResult
getSelectedResult(v) == IF v.qr /\ v.selected \in v.results THEN v.selected ELSE NoId
hasResults(v) == v.qr /\ v.results # {}
hasSelectedResult(v) == getSelectedResult(v) # NoId

\* MediaQueriesResults.selectResultIfFound: the selection is kept when the
\* item is not among the results.
selectResultIfFound(v, id) ==
    IF v.qr /\ id \in v.results THEN [v EXCEPT !.selected = id] ELSE v

\* MediaQueriesResults.resetSelectedResult
resetSelectedResult(v) == [v EXCEPT !.selected = NoId]

\* MediaQueriesResults.isSupersetOf
isSupersetOf(cur, new) == cur.qr /\ new.qr /\ new.results \subseteq cur.results

\* The views the host sets from outside the timeline.
BareTimelineView ==
    MkView("timeline", "none", NoWindow, FALSE, {}, NoId, FALSE, NoWindow, NoTime)
EventView ==
    MkView("media", "event", Win(16, 24), TRUE, {"e1"}, "e1", TRUE, NoWindow, NoTime)
RecordingView ==
    MkView("media", "recording", Win(28, 36), TRUE, {"r1"}, "r1", TRUE, NoWindow, NoTime)
WindowedView ==
    MkView("timeline", "event", Win(36, 44), TRUE, {"e2"}, "e2", TRUE, Win(37, 41), NoTime)
ExternalViews == {BareTimelineView, EventView, RecordingView, WindowedView}
\* A view whose selected result is the event in progress, with no window in
\* its context.
OpenEventView ==
    MkView("media", "event", Win(36, 44), TRUE, {"e2"}, "e2", TRUE, NoWindow, NoTime)
\* A timeline view whose results have no selected item.
UnselectedView ==
    MkView("timeline", "event", Win(16, 24), TRUE, {"e1"}, NoId, TRUE, NoWindow, NoTime)

\* ------------------------------------------------------- the data source
\* TimelineDataSource.getCacheFriendlyEventWindow: the window widened to the
\* cache's granularity.
CacheGranularity == 4
getCacheFriendlyEventWindow(w) ==
    Win((w.start \div CacheGranularity) * CacheGranularity,
        ((w.end + CacheGranularity - 1) \div CacheGranularity) * CacheGranularity)

\* The events the camera manager returns for an event query over window w.
EventsIn(w) ==
    {id \in MediaIds : /\ isEvent(id)
                       /\ MediaOf(id).start <= w.end
                       /\ (MediaOf(id).end = NoTime \/ MediaOf(id).end >= w.start)}

\* createViewForEvents(base, query): the views a successful query may give
\* (the caller adds the failure, null).  The results' default selection is
\* the collaborator's choice.
createViewForEvents(base, qwin, targetView) ==
    LET res == EventsIn(qwin)
    IN  { MkView(IF targetView = "" THEN base.name ELSE targetView,
                 "event", qwin, TRUE, res, sel, TRUE, base.ctxw, base.seek)
          : sel \in {NoId} \cup res }

\* ------------------------------------------------------------------ state
VARIABLES
    view,       \* the `view` property
    pending,    \* the view last dispatched by the timeline, not yet set back
                \* as its `view` property by the host (NoView: none)
    hass,       \* the `hass` property is set
    cfg,        \* mini, cameraIDs, and timelineConfig: clustering, show_recordings
    locked,     \* _locked
    tl,         \* _timeline, the widget: exists, window, selection, bar
                \* (the time of its custom-time bar, NoTime without one)
    barVisible, \* _targetBarVisible
    hold,       \* _pointerHeld
    ign,        \* _ignoreClick
    thr,        \* the state of _throttledSetViewDuringRangeChange
    tasks,      \* the handlers suspended on an await
    fx,         \* what the last step did to the collaborators, in order
    gesture,    \* the user's pointer: "idle", "down", "drag", "up", "updrag"
    ranging     \* a range change by the user is not finalized yet

vars == <<view, pending, hass, cfg, locked, tl, barVisible, hold, ign, thr,
          tasks, fx, gesture, ranging>>

\* The component's mutable state as one record, so that a handler is a
\* function from state to state and handlers compose as calls do.
Cur ==
    [view |-> view, pending |-> pending, hass |-> hass, locked |-> locked,
     tl |-> tl, barVisible |-> barVisible, hold |-> hold, ign |-> ign,
     thr |-> thr, tasks |-> tasks, fx |-> <<>>, over |-> FALSE]

Apply(s) ==
    /\ view' = s.view
    /\ pending' = s.pending
    /\ hass' = s.hass
    /\ locked' = s.locked
    /\ tl' = s.tl
    /\ barVisible' = s.barVisible
    /\ hold' = s.hold
    /\ ign' = s.ign
    /\ thr' = s.thr
    /\ tasks' = s.tasks
    /\ fx' = s.fx

NoHold == [held |-> FALSE, time |-> NoTime, window |-> NoWindow]
NoThrottle ==
    [timer |-> FALSE, has |-> FALSE, targetTime |-> NoTime, w |-> NoWindow, addl |-> ""]
NoTimeline == [exists |-> FALSE, window |-> NoWindow, selection |-> {}, bar |-> NoTime]

\* An effect on a collaborator: a call of the data source or of the widget,
\* an event query, or an event dispatched to the host.
\* A request carries a target time and a set of cameras as well.
Fx(op, src, w, id) ==
    [op |-> op, src |-> src, w |-> w, id |-> id, time |-> NoTime, cams |-> {}]
Eff(s, op, src, w, id) == [s EXCEPT !.fx = Append(@, Fx(op, src, w, id))]

\* View.dispatchChangeEvent: the view is in `pending` until the host sets it.
dispatchChangeEvent(s, src, v) ==
    [s EXCEPT !.pending = v, !.fx = Append(@, Fx("view", src, v.ctxw, v.selected))]

\* A suspended handler: its kind ("sync", "changed", "click"), the await it
\* is suspended on, and its locals.
Task(kind, pc, tw, dw, media, base, qwin, what, item, time) ==
    [kind |-> kind, pc |-> pc, tw |-> tw, dw |-> dw, media |-> media,
     base |-> base, qwin |-> qwin, what |-> what, item |-> item, time |-> time]
\* `over`: a handler equal to one already suspended would be lost in the set.
Suspend(s, t) == [s EXCEPT !.tasks = @ \cup {t}, !.over = @ \/ t \in s.tasks]
Resume(s, t) == [s EXCEPT !.tasks = @ \ {t}]

\* --------------------------------------------- the synchronization cycle
_isClustering == cfg.clustering

\* _createEventMediaQuerys: the window of the event query, NoWindow for null.
_createEventMediaQuerys(s, w) ==
    IF ~s.tl.exists THEN NoWindow ELSE getCacheFriendlyEventWindow(w)

\* Variants of _alreadyHasAcceptableMediaQuery with a plausible slip: the
\* queries compared by identity, which never holds for a fresh query; the
\* freshness check inverted.
acceptableByIdentity(v, fq) == FALSE

acceptableWhenStale(v, fq) ==
    /\ v.qkind # "none"
    /\ v.qr
    /\ v.qkind = "event" /\ v.qwin = fq
    /\ ~v.fresh

_alreadyHasAcceptableMediaQuery(v, fq) ==
    /\ v.qkind # "none"
    /\ v.qr
    /\ v.qkind = "event" /\ v.qwin = fq
    /\ v.fresh

\* _setWindowInContext, merged into view v.
mergeWindowInContext(s, v, w) ==
    LET newWindow == IF w # NoWindow THEN w
                     ELSE IF s.tl.exists THEN s.tl.window ELSE NoWindow
    IN  [v EXCEPT !.ctxw = IF newWindow # NoWindow THEN newWindow
                            ELSE IF s.view.ctxw # NoWindow THEN s.view.ctxw
                            ELSE @]

\* _createViewWithEventMediaQuery up to its await: the query is issued and
\* the handler suspends, unless a collaborator or the query is missing.
startEventQuery(s, src, t) ==
    IF ~s.hass \/ s.view = NoView \/ t.qwin = NoWindow
    THEN s
    ELSE Suspend(Eff(s, "query", src, t.qwin, NoId), [t EXCEPT !.base = s.view])

\* _createViewWithEventMediaQuery after its await, for the outcome v of
\* createViewForEvents (NoView for null).
finishEventQuery(s, v, selectedItem) ==
    IF v = NoView THEN NoView
    ELSE IF selectedItem # NoId THEN selectResultIfFound(v, selectedItem)
    ELSE IF getSelectedResult(s.view) # NoId
         THEN selectResultIfFound(v, getSelectedResult(s.view))
         ELSE v

\* A variant of desiredWindowOf with a plausible slip: an event without an
\* end counts as a span that ends where it starts.
desiredWindowOpenEnded(v, tw) ==
    LET media == getSelectedResult(v)
        hasSpan == media # NoId /\ MediaOf(media).start # NoTime
        mediaWindow == Win(MediaOf(media).start,
                           IF MediaOf(media).end # NoTime THEN MediaOf(media).end
                           ELSE MediaOf(media).start)
    IN  IF v.ctxw # NoWindow THEN v.ctxw
        ELSE IF hasSpan /\ ~rangesOverlap(mediaWindow, tw)
             THEN IF _getPerfectWindowFromMedia(media) # NoWindow
                  THEN _getPerfectWindowFromMedia(media)
                  ELSE tw
             ELSE tw

\* The window the cycle wants (lines 893-910).
desiredWindowOf(v, tw) ==
    LET media == getSelectedResult(v)
        hasSpan == media # NoId /\ MediaOf(media).start # NoTime /\ MediaOf(media).end # NoTime
        mediaWindow == Win(MediaOf(media).start, MediaOf(media).end)
    IN  IF v.ctxw # NoWindow THEN v.ctxw
        ELSE IF hasSpan /\ ~rangesOverlap(mediaWindow, tw)
             THEN IF _getPerfectWindowFromMedia(media) # NoWindow
                  THEN _getPerfectWindowFromMedia(media)
                  ELSE tw
             ELSE tw

\* "Set the timeline window if necessary" (lines 946-949): tw is the window
\* read when the cycle started.
needsWindow(s, tw, dw) == ~s.hold.held /\ dw # tw

\* A variant of applyWindow with a plausible slip: the prefetched window is
\* taken for the desired one.
applyWindowPrefetched(s, tw, dw) ==
    IF ~s.hold.held /\ _getPrefetchWindow(dw) # tw
    THEN Eff([s EXCEPT !.tl.window = _getPrefetchWindow(dw)],
             "setWindow", "sync", _getPrefetchWindow(dw), NoId)
    ELSE s

applyWindow(s, tw, dw) ==
    IF needsWindow(s, tw, dw)
    THEN Eff([s EXCEPT !.tl.window = dw], "setWindow", "sync", dw, NoId)
    ELSE s

\* A variant of syncAfterRefresh with a plausible slip: the selection is
\* applied before the item is rewritten.
syncAfterRefreshSelectFirst(s, tw, dw, media) ==
    LET held == s.hold.held
        desiredId == IF media # NoId /\ isEvent(media) THEN media ELSE NoId
        s1 == IF desiredId # NoId /\ s.tl.exists
              THEN Eff([s EXCEPT !.tl.selection = {desiredId}],
                       "setSelection", "sync", NoWindow, desiredId)
              ELSE s
        s2 == IF ~held /\ media # NoId /\ _isClustering
              THEN Eff(s1, "rewrite", "sync", NoWindow, media)
              ELSE s1
    IN  IF needsWindow(s2, tw, dw) /\ ~s2.tl.exists
        THEN s2    \* this._timeline is undefined: the call throws
        ELSE LET s3 == applyWindow(s2, tw, dw)
                 fq == _createEventMediaQuerys(s3, dw)
             IN  IF /\ ~cfg.mini
                    /\ ~areRecordingQueries(s3.view)
                    /\ fq # NoWindow
                    /\ ~_alreadyHasAcceptableMediaQuery(s3.view, fq)
                 THEN startEventQuery(s3, "sync",
                          Task("sync", "query", tw, dw, media, NoView, fq, "", NoId, NoTime))
                 ELSE s3

\* _updateTimelineFromView after the refresh (lines 922-978).
syncAfterRefresh(s, tw, dw, media) ==
    LET held == s.hold.held
        s1 == IF ~held /\ media # NoId /\ _isClustering
              THEN Eff(s, "rewrite", "sync", NoWindow, media)
              ELSE s
        desiredId == IF media # NoId /\ isEvent(media) THEN media ELSE NoId
        s2 == IF desiredId # NoId /\ s1.tl.exists
              THEN Eff([s1 EXCEPT !.tl.selection = {desiredId}],
                       "setSelection", "sync", NoWindow, desiredId)
              ELSE s1
    IN  IF needsWindow(s2, tw, dw) /\ ~s2.tl.exists
        THEN s2    \* this._timeline is undefined: the call throws
        ELSE LET s3 == applyWindow(s2, tw, dw)
                 fq == _createEventMediaQuerys(s3, dw)
             IN  IF /\ ~cfg.mini
                    /\ ~areRecordingQueries(s3.view)
                    /\ fq # NoWindow
                    /\ ~_alreadyHasAcceptableMediaQuery(s3.view, fq)
                 THEN startEventQuery(s3, "sync",
                          Task("sync", "query", tw, dw, media, NoView, fq, "", NoId, NoTime))
                 ELSE s3

\* _updateTimelineFromView up to its first await (lines 873-920).
_updateTimelineFromView(s) ==
    IF ~s.hass \/ s.view = NoView \/ ~s.tl.exists
    THEN s
    ELSE LET tw == s.tl.window
             media == getSelectedResult(s.view)
             dw == desiredWindowOf(s.view, tw)
         IN  IF ~s.hold.held
             THEN Suspend(Eff(s, "refresh", "sync", _getPrefetchWindow(dw), NoId),
                          Task("sync", "refresh", tw, dw, media, NoView, NoWindow, "", NoId, NoTime))
             ELSE syncAfterRefresh(s, tw, dw, media)

\* _updateTimelineFromView after createViewForEvents has answered with v.
syncAfterQuery(s, t, v) ==
    LET nv == finishEventQuery(s, v, NoId)
    IN  IF nv = NoView THEN s
        ELSE dispatchChangeEvent(s, "sync", mergeWindowInContext(s, nv, t.dw))

\* ------------------------------------------------------------- clustering
\* The items of the widget's dataset: the id is the id of the media, the
\* type is the widget's ("range" and "point" for events, "background" for
\* recordings), the media may be missing, and the label is what the media
\* layer compares for ViewMedia.isGroupableWith.
ItemTypes == {"range", "point", "background"}
TimelineItems ==
    { [id |-> id, type |-> ty, media |-> m, label |-> l]
      : id \in MediaIds, ty \in ItemTypes, m \in {NoId, "own"}, l \in {"person", "car"} }
mediaOfItem(item) == IF item.media = "own" THEN item.id ELSE NoId

isGroupableWith(first, second) == first.label = second.label

\* A variant of clusterCriteria with a plausible slip: only the first item is
\* compared with the selected one.
clusterCriteriaFirstOnly(s, first, second) ==
    LET selectedId == getSelectedResult(s.view)
        firstMedia == mediaOfItem(first)
        secondMedia == mediaOfItem(second)
    IN  /\ first.type # "background"
        /\ first.type = second.type
        /\ first.id # selectedId
        /\ firstMedia # NoId
        /\ secondMedia # NoId
        /\ isEvent(firstMedia)
        /\ isEvent(secondMedia)
        /\ isGroupableWith(first, second)

\* The clusterCriteria option of the widget (lines 806-830); `cameras` is set
\* whenever the widget exists.
clusterCriteria(s, first, second) ==
    LET selectedId == getSelectedResult(s.view)
        firstMedia == mediaOfItem(first)
        secondMedia == mediaOfItem(second)
    IN  /\ first.type # "background"
        /\ first.type = second.type
        /\ first.id # selectedId
        /\ second.id # selectedId
        /\ firstMedia # NoId
        /\ secondMedia # NoId
        /\ isEvent(firstMedia)
        /\ isEvent(secondMedia)
        /\ isGroupableWith(first, second)

\* timelineConfig.clustering_threshold: not set, or a number.
NoThreshold == -1
Thresholds == {NoThreshold, 0, 1, 3}

\* _isClustering for a threshold: !!threshold && threshold > 0.
isClusteringWith(threshold) ==
    threshold # NoThreshold /\ threshold # 0 /\ threshold > 0

\* The cluster option of _getOptions (lines 794-832): whether the widget may
\* put the two items in one cluster.
clusterOption(s, threshold, first, second) ==
    IF isClusteringWith(threshold) THEN clusterCriteria(s, first, second) ELSE FALSE

\* ------------------------------------------------- the target-time marker
_removeTargetBar(s) ==
    IF s.barVisible
    THEN LET s1 == IF s.tl.exists
                   THEN Eff([s EXCEPT !.tl.bar = NoTime], "removeCustomTime", "bar", NoWindow, NoId)
                   ELSE s
         IN  [s1 EXCEPT !.barVisible = FALSE]
    ELSE s

_setTargetBarAppropriately(s, targetTime) ==
    IF ~s.tl.exists THEN s
    ELSE LET targetBarOn ==
                 \/ ~s.locked
                 \/ /\ cfg.mini
                    /\ \E id \in s.tl.selection :
                          /\ id \in MediaIds
                          /\ MediaOf(id).start # NoTime
                          /\ MediaOf(id).end # NoTime
                          /\ targetTime >= MediaOf(id).start
                          /\ targetTime <= MediaOf(id).end
             at(t) == Win(t, t)
         IN  IF targetBarOn
             THEN IF ~s.barVisible
                  THEN [Eff([s EXCEPT !.tl.bar = targetTime],
                            "addCustomTime", "bar", at(targetTime), NoId)
                           EXCEPT !.barVisible = TRUE]
                  ELSE Eff([s EXCEPT !.tl.bar = targetTime],
                           "setCustomTime", "bar", at(targetTime), NoId)
             ELSE _removeTargetBar(s)

\* ------------------------------------------- range changes during a drag
\* utils/media-to-view findClosestMediaIndex: among the results that include
\* the target time, the one closest to it, measured from its end or start.
findClosestMedia(results, targetTime, refPoint) ==
    LET cand == {id \in results : /\ MediaOf(id).start # NoTime
                                  /\ MediaOf(id).end # NoTime
                                  /\ MediaOf(id).start <= targetTime
                                  /\ targetTime <= MediaOf(id).end}
        delta(id) == IF refPoint = "end" THEN MediaOf(id).end - targetTime
                     ELSE targetTime - MediaOf(id).start
    IN  IF cand = {} THEN NoId
        ELSE CHOOSE id \in cand : \A o \in cand : delta(id) <= delta(o)

\* Variants of _setViewDuringRangeChange with a plausible slip: the condition
\* of the dispatch is missing; the lock is not looked at.
setViewDuringRangeChangeAlways(s, targetTime, w, addl) ==
    IF ~s.view.qr \/ ~s.tl.exists \/ s.view = NoView \/ ~s.hass \/ addl = ""
    THEN s
    ELSE LET canSeek == isViewerView(s.view)
             best == findClosestMedia(s.view.results, targetTime,
                                      IF addl = "panright" THEN "end" ELSE "start")
             newSelected == IF s.locked THEN NoId ELSE best
             v1 == IF newSelected # NoId
                   THEN [s.view EXCEPT !.selected = newSelected]
                   ELSE s.view
             v2 == IF canSeek THEN [v1 EXCEPT !.seek = targetTime] ELSE v1
         IN  dispatchChangeEvent(s, "rangechange", mergeWindowInContext(s, v2, w))

setViewDuringRangeChangeUnlocked(s, targetTime, w, addl) ==
    IF ~s.view.qr \/ ~s.tl.exists \/ s.view = NoView \/ ~s.hass \/ addl = ""
    THEN s
    ELSE LET canSeek == isViewerView(s.view)
             newSelected == findClosestMedia(s.view.results, targetTime,
                                             IF addl = "panright" THEN "end" ELSE "start")
         IN  IF canSeek \/ (newSelected # NoId /\ newSelected # getSelectedResult(s.view))
             THEN LET v1 == IF newSelected # NoId
                            THEN [s.view EXCEPT !.selected = newSelected]
                            ELSE s.view
                      v2 == IF canSeek THEN [v1 EXCEPT !.seek = targetTime] ELSE v1
                  IN  dispatchChangeEvent(s, "rangechange", mergeWindowInContext(s, v2, w))
             ELSE s

_setViewDuringRangeChange(s, targetTime, w, addl) ==
    IF ~s.view.qr \/ ~s.tl.exists \/ s.view = NoView \/ ~s.hass \/ addl = ""
    THEN s
    ELSE LET canSeek == isViewerView(s.view)
             best == findClosestMedia(s.view.results, targetTime,
                                      IF addl = "panright" THEN "end" ELSE "start")
             newSelected == IF s.locked THEN NoId ELSE best
         IN  IF canSeek \/ (newSelected # NoId /\ newSelected # getSelectedResult(s.view))
             THEN LET v1 == IF newSelected # NoId
                            THEN [s.view EXCEPT !.selected = newSelected]
                            ELSE s.view
                      v2 == IF canSeek THEN [v1 EXCEPT !.seek = targetTime] ELSE v1
                  IN  dispatchChangeEvent(s, "rangechange", mergeWindowInContext(s, v2, w))
             ELSE s

\* A variant of _throttledSetViewDuringRangeChange with a plausible slip: a
\* call inside the wait is dropped when one is pending already, so the
\* pending call is the oldest, not the latest.
throttledKeepingFirst(s, targetTime, w, addl) ==
    IF ~s.thr.timer
    THEN [_setViewDuringRangeChange(s, targetTime, w, addl)
            EXCEPT !.thr = [NoThrottle EXCEPT !.timer = TRUE]]
    ELSE IF s.thr.has
         THEN s
         ELSE [s EXCEPT !.thr = [timer |-> TRUE, has |-> TRUE, targetTime |-> targetTime,
                                 w |-> w, addl |-> addl]]

\* lodash throttle (leading and trailing edge): a call outside the wait runs
\* now; a call inside it replaces the pending one, which runs when the wait
\* ends.
_throttledSetViewDuringRangeChange(s, targetTime, w, addl) ==
    IF ~s.thr.timer
    THEN [_setViewDuringRangeChange(s, targetTime, w, addl)
            EXCEPT !.thr = [NoThrottle EXCEPT !.timer = TRUE]]
    ELSE [s EXCEPT !.thr = [timer |-> TRUE, has |-> TRUE, targetTime |-> targetTime,
                            w |-> w, addl |-> addl]]

throttleExpired(s) ==
    IF s.thr.has
    THEN [_setViewDuringRangeChange(s, s.thr.targetTime, s.thr.w, s.thr.addl)
            EXCEPT !.thr = [NoThrottle EXCEPT !.timer = TRUE]]
    ELSE [s EXCEPT !.thr = NoThrottle]

\* evType: the type of the DOM event ("wheel", "pan", ...); addl: hammerjs'
\* additionalEvent ("panleft", "panright", "pinchin", "pinchout", "" if none).
_timelineRangeChangeHandler(s, w, byUser, evType, addl) ==
    LET s1 == IF s.hold.held THEN [s EXCEPT !.ign = TRUE] ELSE s
    IN  IF /\ s1.tl.exists
           /\ byUser
           /\ evType # "wheel"
           /\ addl # "pinchin"
           /\ addl # "pinchout"
        THEN LET targetTime == IF s1.hold.held /\ s1.hold.window # NoWindow
                               THEN w.start + (s1.hold.time - s1.hold.window.start)
                               ELSE w.end
                 s2 == IF s1.hold.held
                       THEN _setTargetBarAppropriately(s1, targetTime)
                       ELSE s1
             IN  _throttledSetViewDuringRangeChange(s2, targetTime, w, addl)
        ELSE s1

\* ----------------------------------------------- range-change finalization
_timelineRangeChangedHandler(s, w, byUser) ==
    IF ~byUser THEN s
    ELSE LET s1 == _removeTargetBar(s)
         IN  IF ~s1.hass THEN s1
             ELSE Suspend(Eff(s1, "refresh", "changed", _getPrefetchWindow(w), NoId),
                          Task("changed", "refresh", w, NoWindow, NoId, NoView, NoWindow,
                               "", NoId, NoTime))

\* A variant of changedAfterRefresh with a plausible slip: the check for a
\* recordings view is missing.
changedAfterRefreshAnyView(s, t) ==
    IF s.tl.exists /\ s.view # NoView
    THEN startEventQuery(s, "changed",
             [t EXCEPT !.pc = "query", !.qwin = _createEventMediaQuerys(s, s.tl.window)])
    ELSE s

\* After the refresh (lines 594-601).
changedAfterRefresh(s, t) ==
    IF s.tl.exists /\ s.view # NoView /\ ~areRecordingQueries(s.view)
    THEN startEventQuery(s, "changed",
             [t EXCEPT !.pc = "query", !.qwin = _createEventMediaQuerys(s, s.tl.window)])
    ELSE s

\* A variant of changedAfterQuery with a plausible slip: the comparison with
\* the current results is missing.
changedAfterQueryAlways(s, t, v) ==
    LET newView == finishEventQuery(s, v, NoId)
    IN  IF newView # NoView
        THEN dispatchChangeEvent(s, "changed", mergeWindowInContext(s, newView, NoWindow))
        ELSE s

\* After the event query (lines 609-612).
changedAfterQuery(s, t, v) ==
    LET newView == finishEventQuery(s, v, NoId)
    IN  IF newView # NoView /\ ~isSupersetOf(s.view, newView)
        THEN dispatchChangeEvent(s, "changed", mergeWindowInContext(s, newView, NoWindow))
        ELSE s

\* ------------------------------------------------------------------ clicks
SecondsPerHour == 3600
startOfHour(t) ==
    (t \div (SecondsPerHour * TicksPerSecond)) * (SecondsPerHour * TicksPerSecond)
endOfHour(t) == startOfHour(t) + SecondsPerHour * TicksPerSecond - 1

\* The keys of `cameras`, and the cameraIDs property when it is not set.
AllCameras == {"c1", "c2"}
NoCameraIDs == {NoId}

_getAllCameraIDs == AllCameras
_getTimelineCameraIDs ==
    IF cfg.cameraIDs # NoCameraIDs THEN cfg.cameraIDs ELSE _getAllCameraIDs

\* The call of createViewForRecordings (lines 476-505): its range, target
\* time and cameras, where given.
requestRecordings(s, w, time, cams) ==
    [s EXCEPT !.fx = Append(@, [Fx("recordings", "click", w, NoId)
                                   EXCEPT !.time = time, !.cams = cams])]

\* createViewForRecordings: the views a successful call may give.
createViewForRecordings(base) ==
    { MkView("media", "recording", Win(28, 36), TRUE, {"r1"}, "r1", TRUE,
             base.ctxw, base.seek) }

\* A variant of clickTail with a plausible slip: thumbnails:open is signalled
\* whatever the view is.
clickTailAlwaysOpen(s, v) ==
    LET s1 == IF v # NoView
              THEN Eff(dispatchChangeEvent(s, "click", v),
                       "thumbnails:open", "click", NoWindow, NoId)
              ELSE IF isTimelineView(s.view)
                   THEN Eff(s, "thumbnails:close", "click", NoWindow, NoId)
                   ELSE s
    IN  [s1 EXCEPT !.ign = FALSE]

\* The end of _timelineClickHandler (lines 540-553), for the candidate view v.
clickTail(s, v) ==
    LET s1 == IF v # NoView
              THEN LET d == dispatchChangeEvent(s, "click", v)
                   IN  IF isTimelineView(d.view)
                       THEN Eff(d, "thumbnails:open", "click", NoWindow, NoId)
                       ELSE d
              ELSE IF isTimelineView(s.view)
                   THEN Eff(s, "thumbnails:close", "click", NoWindow, NoId)
                   ELSE s
    IN  [s1 EXCEPT !.ign = FALSE]

\* group: the group (camera) of the click, NoId without one.
_timelineClickHandler(s, what, item, time, group) ==
    IF s.ign \/ ~s.hass \/ ~s.tl.exists \/ s.view = NoView \/ what = ""
    THEN s
    ELSE IF cfg.show_recordings /\ what \in {"background", "group-label"}
    THEN LET targetTime == IF what = "background" THEN time ELSE s.tl.window.end
         IN  Suspend(requestRecordings(s, NoWindow, targetTime,
                                       IF group # NoId THEN {group} ELSE {}),
                     Task("click", "recordings", NoWindow, NoWindow, NoId, s.view,
                          NoWindow, what, item, targetTime))
    ELSE IF cfg.show_recordings /\ what = "axis"
    THEN Suspend(requestRecordings(s, Win(startOfHour(time), endOfHour(time)), time,
                                   _getAllCameraIDs),
                 Task("click", "recordings", NoWindow, NoWindow, NoId, s.view, NoWindow,
                      what, item, time))
    ELSE IF item # NoId /\ what = "item"
    THEN LET newResults == selectResultIfFound(resetSelectedResult(s.view), item)
         IN  IF ~s.view.qr \/ ~hasSelectedResult(newResults)
             THEN startEventQuery(s, "click",
                      Task("click", "query", NoWindow, NoWindow, NoId, NoView,
                           _createEventMediaQuerys(s, s.tl.window), what, item, time))
             ELSE clickTail(s, IF hasResults(newResults)
                               THEN [newResults EXCEPT !.seek = time]
                               ELSE newResults)
    ELSE clickTail(s, NoView)

\* A variant of clickAfterQuery with a plausible slip: the view of the query
\* is taken whether it has results or not.
clickAfterQueryUnchecked(s, t, v) ==
    LET fullEventView == finishEventQuery(s, v, t.item)
    IN  clickTail(s, IF fullEventView # NoView /\ hasResults(fullEventView)
                     THEN [fullEventView EXCEPT !.seek = t.time]
                     ELSE fullEventView)

\* After _createViewWithEventMediaQuery has answered with v (lines 526-537).
clickAfterQuery(s, t, v) ==
    LET fullEventView == finishEventQuery(s, v, t.item)
    IN  clickTail(s, IF fullEventView # NoView /\ hasResults(fullEventView)
                     THEN [fullEventView EXCEPT !.seek = t.time]
                     ELSE NoView)

\* After createViewForRecordings has answered with v.
clickAfterRecordings(s, t, v) == clickTail(s, v)

\* --------------------------------------------------------------- lifecycle
\* The default window of a new widget: the configured window up to now.
Now == 16
_getDefaultStartEnd == Win(Now - WindowSeconds * TicksPerSecond, Now)

\* A variant of _destroy with a plausible slip: the marker's flag is kept.
destroyKeepingFlag(s) == [s EXCEPT !.tl = NoTimeline]

_destroy(s) == [s EXCEPT !.tl = NoTimeline, !.barVisible = FALSE]

\* updated(), the part run when timelineConfig or cameraIDs changed
\* (lines 1076-1137); viewChanged: the view changed in the same update.
updatedConfig(s, groupsEmpty, viewChanged) ==
    LET s1 == IF s.tl.exists THEN _destroy(s) ELSE s
    IN  IF groupsEmpty
        THEN IF ~cfg.mini
             THEN Eff(s1, "message", "updated", NoWindow, NoId)
             ELSE s1
        ELSE LET s2 == [s1 EXCEPT !.tl = [exists |-> TRUE, window |-> _getDefaultStartEnd,
                                          selection |-> {}, bar |-> NoTime]]
             IN  IF viewChanged
                 THEN Suspend(s2, Task("sync", "raf", NoWindow, NoWindow, NoId, NoView,
                                       NoWindow, "", NoId, NoTime))
                 ELSE s2

\* The mouseDown and mouseUp handlers (lines 1125-1136).
mouseDown(s, time) ==
    [s EXCEPT !.hold = [held |-> TRUE, time |-> time, window |-> s.tl.window],
              !.ign = FALSE]
mouseUp(s) == _removeTargetBar([s EXCEPT !.hold = NoHold])

\* ------------------------------------------------------------ the actions
Configs ==
    [mini : BOOLEAN, clustering : BOOLEAN, show_recordings : BOOLEAN,
     cameraIDs : {NoCameraIDs, {"c1"}}]

\* The windows the user pans or zooms the widget to.
UserWindows == {Win(12, 16), Win(14, 18), Win(19, 22)}

\* The range-change events of the widget: byUser, event type, additionalEvent.
RangeKinds ==
    { <<TRUE, "pan", "panright">>, <<TRUE, "pan", "panleft">>, <<TRUE, "wheel", "">>,
      <<TRUE, "pinch", "pinchin">>, <<FALSE, "", "">> }

\* The clicks: what, item, time, group.
Clicks ==
    { <<"item", "e1", 21, "c1">>, <<"item", "e2", 41, "c1">>,
      <<"background", NoId, 14, NoId>>, <<"axis", NoId, 15, NoId>>,
      <<"group-label", NoId, NoTime, "c1">>, <<"", NoId, NoTime, NoId>> }

Room(s) == ~s.over /\ Cardinality(s.tasks) <= MaxTasks

Init ==
    /\ view = NoView
    /\ pending = NoView
    /\ hass = TRUE
    /\ cfg \in Configs
    /\ locked = FALSE
    /\ tl = NoTimeline
    /\ barVisible = FALSE
    /\ hold = NoHold
    /\ ign = FALSE
    /\ thr = NoThrottle
    /\ tasks = {}
    /\ fx = <<>>
    /\ gesture = "idle"
    /\ ranging = FALSE

Env == UNCHANGED <<cfg, gesture, ranging>>

\* The host sets hass (shouldUpdate lets no update through without it).
HostSetHass ==
    /\ Apply([Cur EXCEPT !.hass = ~hass])
    /\ Env

\* The host sets timelineConfig or cameraIDs, with or without a new view:
\* the widget is rebuilt.
HostSetConfig(groupsEmpty, v) ==
    /\ hass
    /\ LET s0 == IF v # NoView THEN [Cur EXCEPT !.view = v] ELSE Cur
           s == updatedConfig(s0, groupsEmpty, v # NoView)
       IN  Room(s) /\ Apply(s)
    /\ Env

\* The host sets cameras or cameraManager: updated() destroys the widget.
HostSetCameras ==
    /\ hass
    /\ tl.exists
    /\ Apply(_destroy(Cur))
    /\ Env

\* The host sets a view of its own.
HostSetView(v) ==
    /\ LET s0 == [Cur EXCEPT !.view = v]
           s == IF hass THEN _updateTimelineFromView(s0) ELSE s0
       IN  Room(s) /\ Apply(s)
    /\ Env

\* The host sets the view the timeline dispatched.
HostDeliver ==
    /\ pending # NoView
    /\ LET s0 == [Cur EXCEPT !.view = pending, !.pending = NoView]
           s == IF hass THEN _updateTimelineFromView(s0) ELSE s0
       IN  Room(s) /\ Apply(s)
    /\ Env

\* Time passes: the results of the view are no longer fresh.
ResultsExpire ==
    /\ view.fresh
    /\ Apply([Cur EXCEPT !.view.fresh = FALSE])
    /\ Env

UserToggleLock ==
    /\ view # NoView /\ hass
    /\ Apply([Cur EXCEPT !.locked = ~locked])
    /\ Env

UserPointerDown ==
    /\ tl.exists
    /\ gesture \in {"idle", "up", "updrag"}
    /\ Apply(mouseDown(Cur, tl.window.start + 1))
    /\ gesture' = "down"
    /\ UNCHANGED <<cfg, ranging>>

\* The pointer is released; a widget that is gone delivers no mouseUp.
UserPointerUp ==
    /\ gesture \in {"down", "drag"}
    /\ Apply(IF tl.exists THEN mouseUp(Cur) ELSE Cur)
    /\ gesture' = IF gesture = "drag" THEN "updrag" ELSE "up"
    /\ UNCHANGED <<cfg, ranging>>

UserRangeChange(w, k) ==
    /\ tl.exists
    /\ k[2] = "pan" => gesture \in {"down", "drag"}
    /\ k[1] => w # tl.window
    /\ LET s0 == IF k[1] THEN [Cur EXCEPT !.tl.window = w] ELSE Cur
       IN  Apply(_timelineRangeChangeHandler(s0, w, k[1], k[2], k[3]))
    /\ gesture' = IF gesture = "down" THEN "drag" ELSE gesture
    /\ ranging' = (ranging \/ k[1])
    /\ UNCHANGED cfg

\* The widget reports the end of the user's range change.
UserRangeChanged ==
    /\ tl.exists
    /\ ranging
    /\ LET s == _timelineRangeChangedHandler(Cur, tl.window, TRUE)
       IN  Room(s) /\ Apply(s)
    /\ ranging' = FALSE
    /\ UNCHANGED <<cfg, gesture>>

UserClick(c) ==
    /\ tl.exists
    /\ gesture \in {"up", "updrag"}
    /\ LET s == _timelineClickHandler(Cur, c[1], c[2], c[3], c[4])
       IN  Room(s) /\ Apply(s)
    /\ gesture' = "idle"
    /\ UNCHANGED <<cfg, ranging>>

ThrottleTimer ==
    /\ thr.timer
    /\ Apply(throttleExpired(Cur))
    /\ Env

\* requestAnimationFrame runs the cycle deferred by updated().
SyncFrame(t) ==
    /\ t.kind = "sync" /\ t.pc = "raf"
    /\ LET s == _updateTimelineFromView(Resume(Cur, t))
       IN  Room(s) /\ Apply(s)
    /\ Env

SyncRefreshed(t) ==
    /\ t.kind = "sync" /\ t.pc = "refresh"
    /\ Apply(syncAfterRefresh(Resume(Cur, t), t.tw, t.dw, t.media))
    /\ Env

SyncQueried(t, v) ==
    /\ t.kind = "sync" /\ t.pc = "query"
    /\ Apply(syncAfterQuery(Resume(Cur, t), t, v))
    /\ Env

ChangedRefreshed(t) ==
    /\ t.kind = "changed" /\ t.pc = "refresh"
    /\ Apply(changedAfterRefresh(Resume(Cur, t), t))
    /\ Env

ChangedQueried(t, v) ==
    /\ t.kind = "changed" /\ t.pc = "query"
    /\ Apply(changedAfterQuery(Resume(Cur, t), t, v))
    /\ Env

ClickQueried(t, v) ==
    /\ t.kind = "click" /\ t.pc = "query"
    /\ Apply(clickAfterQuery(Resume(Cur, t), t, v))
    /\ Env

ClickRecordings(t, v) ==
    /\ t.kind = "click" /\ t.pc = "recordings"
    /\ Apply(clickAfterRecordings(Resume(Cur, t), t, v))
    /\ Env

\* The answers of createViewForEvents for a suspended query: null or a view.
Answers(t) == {NoView} \cup createViewForEvents(t.base, t.qwin, IF t.kind = "click" THEN "media" ELSE "")

Next ==
    \/ HostSetHass
    \/ \E g \in BOOLEAN, v \in ExternalViews \cup {NoView} : HostSetConfig(g, v)
    \/ HostSetCameras
    \/ \E v \in ExternalViews : HostSetView(v)
    \/ HostDeliver
    \/ ResultsExpire
    \/ UserToggleLock
    \/ UserPointerDown
    \/ UserPointerUp
    \/ \E w \in UserWindows, k \in RangeKinds : UserRangeChange(w, k)
    \/ UserRangeChanged
    \/ \E c \in Clicks : UserClick(c)
    \/ ThrottleTimer
    \/ \E t \in tasks : SyncFrame(t)
    \/ \E t \in tasks : SyncRefreshed(t)
    \/ \E t \in tasks : \E v \in Answers(t) : SyncQueried(t, v)
    \/ \E t \in tasks : ChangedRefreshed(t)
    \/ \E t \in tasks : \E v \in Answers(t) : ChangedQueried(t, v)
    \/ \E t \in tasks : \E v \in Answers(t) : ClickQueried(t, v)
    \/ \E t \in tasks : \E v \in {NoView} \cup createViewForRecordings(t.base) : ClickRecordings(t, v)

Spec == Init /\ [][Next]_vars

\* ------------------------------------------------------------ the surround
\* FrigateCardSurround (src/unnamed/part_000), the host of a mini timeline
\* and of the thumbnail carousel: it catches the signals of its children and
\* re-dispatches them as requests to its drawer.
\* thumbnailConfig.mode, NoThumbnails without a thumbnailConfig.
NoThumbnails == "unset"
ThumbnailModes == {"none", "above", "below", "left", "right"}

\* The surround: its thumbnail mode, whether hass and view are set, and
\* inBackground.
Surrounds ==
    [mode : ThumbnailModes \cup {NoThumbnails}, ready : BOOLEAN, inBackground : BOOLEAN]

\* A variant of _hasDrawer with a plausible slip: every mode that shows
\* thumbnails counts as a drawer.
hasDrawerWhenShown(sur) == sur.mode # NoThumbnails /\ sur.mode # "none"

_hasDrawer(sur) == sur.mode # NoThumbnails /\ sur.mode \in {"left", "right"}

\* changeDrawer (lines 135-146): the events dispatched for the action.
changeDrawer(sur, action) ==
    IF sur.mode # NoThumbnails /\ _hasDrawer(sur)
    THEN << [op |-> IF action = "open" THEN "drawer:open" ELSE "drawer:close",
             drawer |-> sur.mode] >>
    ELSE << >>

\* render (lines 130-203): nothing is rendered, and nothing listens, without
\* hass, view or thumbnailConfig; the carousel exists for a mode other than
\* none when not in the background.
surroundRendered(sur) == sur.ready /\ sur.mode # NoThumbnails
carouselRendered(sur) ==
    surroundRendered(sur) /\ sur.mode # "none" /\ ~sur.inBackground

\* The listeners of render: what the surround dispatches for a signal of one
\* of its children ("view:change" is the carousel's).
surroundOn(sur, signal) ==
    IF ~surroundRendered(sur) THEN << >>
    ELSE IF signal = "thumbnails:open" THEN changeDrawer(sur, "open")
    ELSE IF signal = "thumbnails:close" THEN changeDrawer(sur, "close")
    ELSE IF signal = "view:change" /\ carouselRendered(sur) THEN changeDrawer(sur, "close")
    ELSE << >>

\* ------------------------------------------------- focused specifications
\* Spec interleaves every event of the host and of the user.  The
\* specifications below start once updated() has built the widget and keep
\* the events that bear on one part of the component.

\* The state after updated() has built the widget for a configuration of cs,
\* before any view is set.
Built(cs) ==
    /\ view = NoView
    /\ pending = NoView
    /\ hass = TRUE
    /\ cfg \in cs
    /\ locked = FALSE
    /\ tl = [exists |-> TRUE, window |-> _getDefaultStartEnd, selection |-> {}, bar |-> NoTime]
    /\ barVisible = FALSE
    /\ hold = NoHold
    /\ ign = FALSE
    /\ thr = NoThrottle
    /\ tasks = {}
    /\ fx = <<>>
    /\ gesture = "idle"
    /\ ranging = FALSE

\* Clustering, recordings shown, cameraIDs not set.
FullConfigs ==
    {c \in Configs : c.clustering /\ c.show_recordings /\ c.cameraIDs = NoCameraIDs}

\* The steps of the synchronization cycle after its start.
SyncSteps ==
    \/ \E t \in tasks : SyncRefreshed(t)
    \/ \E t \in tasks : \E v \in Answers(t) : SyncQueried(t, v)

\* The synchronization cycle under view changes, pointer holds, results
\* going stale and the widget being destroyed.
SyncNext ==
    \/ \E v \in {EventView, RecordingView} : HostSetView(v)
    \/ HostDeliver
    \/ ResultsExpire
    \/ HostSetCameras
    \/ UserPointerDown
    \/ UserPointerUp
    \/ SyncSteps

SyncSpec == Built(FullConfigs) /\ [][SyncNext]_vars

\* The synchronization cycle for every view of the host, with the user
\* zooming by the wheel.
WheelWindows == {Win(14, 18)}

CycleNext ==
    \/ \E v \in ExternalViews : HostSetView(v)
    \/ HostDeliver
    \/ ResultsExpire
    \/ UserPointerDown
    \/ UserPointerUp
    \/ \E w \in WheelWindows : UserRangeChange(w, <<TRUE, "wheel", "">>)
    \/ SyncSteps

CycleSpec == Built(FullConfigs) /\ [][CycleNext]_vars

\* The chains of cycles the host's view changes start, with nothing else
\* happening: the host sets a view of its own only when the chain before has
\* ended, and every step is taken sooner or later.
ChainEnded == tasks = {} /\ pending = NoView

ChainNext ==
    \/ ChainEnded /\ \E v \in ExternalViews : HostSetView(v)
    \/ HostDeliver
    \/ SyncSteps

ChainSpec == Built(Configs) /\ [][ChainNext]_vars /\ WF_vars(ChainNext)

\* The user's gestures: holds, drags, clicks, with the widget destroyed and
\* rebuilt under them, for a host that keeps its view.
DragWindows == {Win(19, 23), Win(20, 24)}
GestureClicks ==
    {<<"item", "e2", 41, "c1">>, <<"background", NoId, 14, NoId>>, <<"", NoId, NoTime, NoId>>}

GestureNext ==
    \/ \E v \in {EventView} : HostSetView(v)
    \/ SyncSteps
    \/ HostSetCameras
    \/ HostSetConfig(FALSE, NoView)
    \/ UserPointerDown
    \/ UserPointerUp
    \/ \E w \in DragWindows : UserRangeChange(w, <<TRUE, "pan", "panright">>)
    \/ \E c \in GestureClicks : UserClick(c)
    \/ ThrottleTimer
    \/ \E t \in tasks : \E v \in Answers(t) : ClickQueried(t, v)
    \/ \E t \in tasks : \E v \in {NoView} \cup createViewForRecordings(t.base) : ClickRecordings(t, v)

GestureSpec == Built(FullConfigs) /\ [][GestureNext]_vars

\* The finalization of the user's range changes.
ChangedNext ==
    \/ \E v \in {BareTimelineView, RecordingView} : HostSetView(v)
    \/ HostDeliver
    \/ SyncSteps
    \/ \E w \in WheelWindows : UserRangeChange(w, <<TRUE, "wheel", "">>)
    \/ UserRangeChanged
    \/ \E t \in tasks : ChangedRefreshed(t)
    \/ \E t \in tasks : \E v \in Answers(t) : ChangedQueried(t, v)

ChangedSpec == Built(FullConfigs) /\ [][ChangedNext]_vars

\* The finalization with the user zooming by the wheel between two windows,
\* one of them not a whole number of seconds long,
\* also during the handler's awaits, for a host that sets the bare timeline
\* view when no handler is suspended and the views the timeline dispatched
\* at any time.
ZoomWindows == {Win(14, 18), Win(19, 22)}

ZoomNext ==
    \/ tasks = {} /\ HostSetView(BareTimelineView)
    \/ HostDeliver
    \/ SyncSteps
    \/ \E w \in ZoomWindows : UserRangeChange(w, <<TRUE, "wheel", "">>)
    \/ UserRangeChanged
    \/ \E t \in tasks : ChangedRefreshed(t)
    \/ \E t \in tasks : \E v \in Answers(t) : ChangedQueried(t, v)

ZoomSpec == Built(FullConfigs) /\ [][ZoomNext]_vars

\* The user's drags with the lock toggled, for a host that sets a view, its
\* own or the one the timeline dispatched, when no cycle is running.
PanKinds == {<<TRUE, "pan", "panright">>, <<TRUE, "pan", "panleft">>}

DragNext ==
    \/ tasks = {} /\ \E v \in {EventView, UnselectedView} : HostSetView(v)
    \/ tasks = {} /\ HostDeliver
    \/ SyncSteps
    \/ UserToggleLock
    \/ UserPointerDown
    \/ UserPointerUp
    \/ \E w \in DragWindows, k \in PanKinds : UserRangeChange(w, k)
    \/ ThrottleTimer

DragSpec == Built(FullConfigs) /\ [][DragNext]_vars

\* The user's clicks, for every setting of recordings and of cameraIDs and a
\* host that sets a view, its own or the one the timeline dispatched, when no
\* handler is suspended.
ClickConfigs == {c \in Configs : c.clustering}

ClickNext ==
    \/ tasks = {} /\ \E v \in {BareTimelineView, EventView} : HostSetView(v)
    \/ tasks = {} /\ HostDeliver
    \/ SyncSteps
    \/ UserPointerDown
    \/ UserPointerUp
    \/ \E c \in Clicks : UserClick(c)
    \/ \E t \in tasks : \E v \in Answers(t) : ClickQueried(t, v)
    \/ \E t \in tasks : \E v \in {NoView} \cup createViewForRecordings(t.base) : ClickRecordings(t, v)

ClickSpec == Built(ClickConfigs) /\ [][ClickNext]_vars

\* The life of the widget: built, rebuilt with and without groups, destroyed,
\* with hass set and unset under the user's drags and their finalization, for
\* a host that acts when no handler is suspended.
LifeConfigs ==
    {c \in Configs : c.clustering /\ c.show_recordings /\ c.cameraIDs = NoCameraIDs}

LifeNext ==
    \/ tasks = {} /\ HostSetHass
    \/ tasks = {} /\ \E g \in BOOLEAN, v \in {NoView, EventView} : HostSetConfig(g, v)
    \/ tasks = {} /\ HostSetCameras
    \/ \E t \in tasks : SyncFrame(t)
    \/ SyncSteps
    \/ UserPointerDown
    \/ UserPointerUp
    \/ \E w \in DragWindows : UserRangeChange(w, <<TRUE, "pan", "panright">>)
    \/ UserRangeChanged
    \/ \E t \in tasks : ChangedRefreshed(t)
    \/ \E t \in tasks : \E v \in Answers(t) : ChangedQueried(t, v)
    \/ ThrottleTimer

LifeInit == Init /\ cfg \in LifeConfigs

LifeSpec == LifeInit /\ [][LifeNext]_vars

\* The target-time marker under drags with the lock toggled, pointer-ups,
\* finalizations, and the widget destroyed and rebuilt, in mini mode and
\* outside it, for a host that acts when no handler is suspended.
MarkerNext ==
    \/ tasks = {} /\ HostSetView(EventView)
    \/ SyncSteps
    \/ tasks = {} /\ HostSetCameras
    \/ tasks = {} /\ HostSetConfig(FALSE, NoView)
    \/ UserToggleLock
    \/ UserPointerDown
    \/ UserPointerUp
    \/ \E w \in DragWindows : UserRangeChange(w, <<TRUE, "pan", "panright">>)
    \/ UserRangeChanged
    \/ \E t \in tasks : ChangedRefreshed(t)
    \/ \E t \in tasks : \E v \in Answers(t) : ChangedQueried(t, v)
    \/ ThrottleTimer

MarkerSpec == Built(LifeConfigs) /\ [][MarkerNext]_vars

\* The user's drags with their finalization and the throttle's timer, for a
\* host that sets a view of its own when no handler is suspended and keeps
\* it whatever the timeline dispatches.  A drag starts when no handler is
\* suspended, so that the window the widget shows when the range change is
\* finalized is the window of the drag's last range change.
TrailNext ==
    \/ tasks = {} /\ HostSetView(EventView)
    \/ SyncSteps
    \/ tasks = {} /\ UserPointerDown
    \/ UserPointerUp
    \/ \E w \in DragWindows, k \in PanKinds : UserRangeChange(w, k)
    \/ UserRangeChanged
    \/ \E t \in tasks : ChangedRefreshed(t)
    \/ \E t \in tasks : \E v \in Answers(t) : ChangedQueried(t, v)
    \/ ThrottleTimer

TrailSpec == Built(FullConfigs) /\ [][TrailNext]_vars

\* The synchronization cycle for views whose selected event is in progress
\* or ended, with the user zooming by the wheel and holding the pointer, for
\* a host that sets a view when no cycle is running.
OpenNext ==
    \/ tasks = {} /\ \E v \in {OpenEventView, EventView} : HostSetView(v)
    \/ tasks = {} /\ HostDeliver
    \/ ResultsExpire
    \/ UserPointerDown
    \/ UserPointerUp
    \/ \E w \in ZoomWindows : UserRangeChange(w, <<TRUE, "wheel", "">>)
    \/ SyncSteps

OpenSpec == Built(FullConfigs) /\ [][OpenNext]_vars

\* ------------------------------------------------------------- properties
\* The effects of the last step that came from src with an operation of ops.
Did(src, ops) == \E i \in DOMAIN fx : fx[i].src = src /\ fx[i].op \in ops
DidNext(src, ops) == \E i \in DOMAIN fx' : fx'[i].src = src /\ fx'[i].op \in ops

\* C1: while a pointer hold is active, a synchronization cycle issues no
\* refresh of the data source, no rewrite of the selected item, no setWindow
\* and no setSelection, whatever the interleaving.
C1_HeldCycleLeavesWidget ==
    hold.held => ~Did("sync", {"refresh", "rewrite", "setWindow", "setSelection"})

\* C2: the click that follows pointer-down, range changes and pointer-up is
\* suppressed: its handler emits no view-change and no thumbnails signal, and
\* starts nothing that would.
C2_ClickAfterDragSuppressed ==
    [][(gesture = "updrag" /\ gesture' = "idle")
          => /\ ~DidNext("click", {"view", "thumbnails:open", "thumbnails:close"})
             /\ \A t \in tasks' \ tasks : t.kind # "click"]_vars

\* C3: whenever the click handler returns, at once or after its awaits, the
\* ignore-click flag is false.
C3_IgnoreClickFalseOnReturn ==
    [][(\/ /\ gesture \in {"up", "updrag"} /\ gesture' = "idle"
           /\ \A t \in tasks' \ tasks : t.kind # "click"
        \/ \E t \in tasks \ tasks' : t.kind = "click")
          => ~ign']_vars

\* C4: a pointer hold is set only while a pointer is down, whatever happens
\* to the widget in between.
C4_HoldOnlyWhilePointerDown == hold.held => gesture \in {"down", "drag"}

\* The states in which a synchronization cycle started in state s may end,
\* when it runs to its end with nothing happening in between.
cycleOutcomes(s) ==
    LET a == _updateTimelineFromView([s EXCEPT !.fx = <<>>])
        ra == {t \in a.tasks : t.kind = "sync" /\ t.pc = "refresh"}
        b == IF ra = {} THEN a
             ELSE LET t == CHOOSE t \in ra : TRUE
                  IN  syncAfterRefresh(Resume(a, t), t.tw, t.dw, t.media)
        qb == {t \in b.tasks : t.kind = "sync" /\ t.pc = "query"}
    IN  IF qb = {} THEN {b}
        ELSE LET t == CHOOSE t \in qb : TRUE
             IN  {syncAfterQuery(Resume(b, t), t, v) : v \in Answers(t)}

emitted(s) == \E i \in DOMAIN s.fx : s.fx[i].src = "sync" /\ s.fx[i].op = "view"

\* A skip condition of the cycle holds for the view of state s.
skips(s) ==
    \/ cfg.mini
    \/ areRecordingQueries(s.view)
    \/ _alreadyHasAcceptableMediaQuery(s.view,
           _createEventMediaQuerys(s, desiredWindowOf(s.view, s.tl.window)))

\* C5 as stated: a second run of the cycle with the same view changes neither
\* the window nor the selection of the widget, and emits no view-change.
C5_SecondRunSilent ==
    tasks = {} =>
        \A s1 \in cycleOutcomes(Cur) : \A s2 \in cycleOutcomes(s1) :
            /\ s2.tl.window = s1.tl.window
            /\ s2.tl.selection = s1.tl.selection
            /\ ~emitted(s2)

\* C5: a second run of the cycle with the same view changes neither the
\* window nor the selection of the widget, and it emits no view-change when a
\* skip condition holds for the view (without one it queries and emits again).
C5_SecondRunKeepsWidget ==
    tasks = {} =>
        \A s1 \in cycleOutcomes(Cur) : \A s2 \in cycleOutcomes(s1) :
            /\ s2.tl.window = s1.tl.window
            /\ s2.tl.selection = s1.tl.selection
            /\ skips(s1) => ~emitted(s2)

\* A first run moves the window to the selected media, so that the second
\* run has something to keep.
C5_Witness ==
    /\ tasks = {}
    /\ hasSelectedResult(view)
    /\ \E s1 \in cycleOutcomes(Cur) :
          /\ s1.tl.window # tl.window
          /\ s1.tl.selection = {getSelectedResult(view)}

\* C6: a cycle emits a view-change only as the answer to an event query it
\* issued, and it issues one only when no skip condition holds: not in mini
\* mode, not for a recordings query, only with a query constructed, and not
\* when that query equals the view's query with fresh results.
C6_EmitsOnlyWithoutSkip ==
    [][/\ \A t \in tasks' \ tasks :
              (t.kind = "sync" /\ t.pc = "query") =>
                  /\ ~cfg.mini
                  /\ ~areRecordingQueries(view')
                  /\ tl'.exists /\ t.qwin # NoWindow
                  /\ ~(view'.qr /\ view'.qkind = "event" /\ view'.qwin = t.qwin
                         /\ view'.fresh)
       /\ DidNext("sync", {"view"}) =>
              \E t \in tasks \ tasks' : t.kind = "sync" /\ t.pc = "query"]_vars

\* A cycle has emitted a view-change.
C6_Witness == Did("sync", {"view"}) /\ pending.qkind = "event" /\ ~cfg.mini

\* C7: with no user interaction and results that stay fresh, every chain of
\* cycles ends: again and again no cycle is running and no emitted view waits.
C7_ChainTerminates == []<>ChainEnded

\* A chain has ended on a view that a cycle emitted.
C7_Witness ==
    /\ ChainEnded
    /\ view # NoView /\ view \notin ExternalViews
    /\ view.ctxw # NoWindow

\* C8: a cycle that issued an event query emits a view-change only if the
\* view has results, and the emitted view's context window is the cycle's
\* desired window.
C8_EmitsOnlyWithResults ==
    [][\A t \in tasks \ tasks' :
          (t.kind = "sync" /\ t.pc = "query" /\ DidNext("sync", {"view"}))
              => hasResults(pending') /\ pending'.ctxw = t.dw]_vars

\* C9: when a cycle that runs with no pointer hold, for a view that is still
\* the component's view, has dealt with the window, the widget's window is
\* the desired window of the view, and the cycle called setWindow only if the
\* desired window differed from the widget's.
C9_WindowIsDesired ==
    [][\A t \in tasks \ tasks' :
          (/\ t.kind = "sync" /\ t.pc = "refresh"
           /\ ~hold.held /\ tl.exists
           /\ t.media = getSelectedResult(view)
           /\ t.dw = desiredWindowOf(view, t.tw))
              => /\ tl'.window = desiredWindowOf(view, tl.window)
                 /\ DidNext("sync", {"setWindow"})
                       => desiredWindowOf(view, tl.window) # tl.window]_vars

\* C10: the finalization of a range change of the user on a recordings view
\* issues one refresh, of the prefetch window, and after it no event query
\* and no view-change.
C10_RecordingsOnlyRefresh ==
    [][/\ \A t \in tasks' \ tasks :
              (t.kind = "changed" /\ areRecordingQueries(view)) =>
                  /\ t.pc = "refresh"
                  /\ Len(SelectSeq(fx', LAMBDA e : e.src = "changed")) = 1
                  /\ \A i \in DOMAIN fx' : fx'[i].src = "changed" =>
                         /\ fx'[i].op = "refresh"
                         /\ fx'[i].w = _getPrefetchWindow(tl.window)
       /\ \A t \in tasks \ tasks' :
              (t.kind = "changed" /\ t.pc = "refresh" /\ areRecordingQueries(view)) =>
                  /\ fx' = <<>>
                  /\ tasks' = tasks \ {t}
                  /\ pending' = pending]_vars

\* The finalization on a recordings view has issued its refresh.
C10_Witness ==
    /\ areRecordingQueries(view)
    /\ Did("changed", {"refresh"})
    /\ \E t \in tasks : t.kind = "changed" /\ t.pc = "refresh"

\* C11: the finalization of a range change emits a view-change only as the
\* answer to its event query and only if the results of the view at that time
\* are not a superset of the new results; a range change not flagged byUser
\* does nothing: no refresh, no emission, no change of state.
C11_ChangedEmitsOnlyNews ==
    /\ [](\A w \in ZoomWindows : _timelineRangeChangedHandler(Cur, w, FALSE) = Cur)
    /\ [][DidNext("changed", {"view"}) =>
              \E t \in tasks \ tasks' :
                  /\ t.kind = "changed" /\ t.pc = "query"
                  /\ ~isSupersetOf(view, pending')]_vars

\* A finalization has emitted a view with results the view did not have.
C11_Witness ==
    /\ Did("changed", {"view"})
    /\ hasResults(pending)
    /\ ~isSupersetOf(view, pending)

\* C12: a view-change emitted by the finalization of a range change carries
\* the window of that range change as its context window, and its event query
\* was built for that window, whatever happened during the handler's awaits.
C12_EmittedWindowIsFinalized ==
    [][\A t \in tasks \ tasks' :
          (t.kind = "changed" /\ t.pc = "query" /\ DidNext("changed", {"view"}))
              => /\ pending'.ctxw = t.tw
                 /\ pending'.qwin = getCacheFriendlyEventWindow(t.tw)]_vars

\* C13: when an event query of a cycle or of a finalization answers after the
\* view it was started for has been replaced, results that the view of that
\* time already covers produce no view-change.
C13_StaleAnswerSuperseded ==
    [][\A t \in tasks \ tasks' :
          (/\ t.kind \in {"sync", "changed"} /\ t.pc = "query"
           /\ t.base # view
           /\ DidNext(t.kind, {"view"}))
              => ~isSupersetOf(view, pending')]_vars

\* The range changes the handler filters: not by the user, by the wheel, or
\* a pinch.
FilteredKinds ==
    {k \in RangeKinds : ~k[1] \/ k[2] = "wheel" \/ k[3] \in {"pinchin", "pinchout"}}

\* C14: a range change that is not by the user, or is a wheel zoom or a
\* pinch, has no effect: the handler leaves the marker, the ignore-click flag,
\* the pointer hold, the view and the throttle as they are and emits nothing.
C14_FilteredRangeChangeInert ==
    tl.exists =>
        \A k \in FilteredKinds : \A w \in WheelWindows :
            LET s == _timelineRangeChangeHandler(Cur, w, k[1], k[2], k[3])
            IN  /\ s.barVisible = barVisible /\ s.tl = tl
                /\ s.ign = ign
                /\ s.hold = hold
                /\ s.view = view /\ s.pending = pending
                /\ s.thr = thr
                /\ s.fx = <<>>

\* C15: during a drag the throttled handler emits a view-change only if the
\* view is a viewer view or the emitted view has a selected result that is
\* not the view's selected result.
C15_DragEmitsOnSeekOrNewResult ==
    [][DidNext("rangechange", {"view"}) =>
          \/ isViewerView(view)
          \/ /\ hasSelectedResult(pending')
             /\ getSelectedResult(pending') # getSelectedResult(view)]_vars

\* A drag over a view that is no viewer view has selected a new result.
C15_Witness ==
    /\ Did("rangechange", {"view"})
    /\ ~isViewerView(view)
    /\ getSelectedResult(pending) # getSelectedResult(view)

\* C16: while the timeline is locked, a view-change emitted during a drag
\* has the results and the selected item of the view, and there is none
\* unless the view is a viewer view.
C16_LockedDragKeepsSelection ==
    [][(locked /\ DidNext("rangechange", {"view"})) =>
          /\ isViewerView(view)
          /\ pending'.qr = view.qr
          /\ pending'.results = view.results
          /\ pending'.selected = view.selected]_vars

\* A drag with the lock on has emitted a view-change, to seek.
C16_Witness ==
    /\ locked
    /\ Did("rangechange", {"view"})
    /\ pending.seek # NoTime

\* C17: whenever the target-time marker is visible, a pointer hold is active
\* and either the timeline is not locked, or the component is in mini mode
\* and the marker's time is within the span of a selected item.
C17_MarkerOnlyWhileDragging ==
    barVisible =>
        /\ hold.held
        /\ \/ ~locked
           \/ /\ cfg.mini
              /\ \E id \in tl.selection :
                    /\ MediaOf(id).start # NoTime /\ MediaOf(id).end # NoTime
                    /\ MediaOf(id).start <= tl.bar /\ tl.bar <= MediaOf(id).end

\* The click handler does not return early (lines 458-468), for a click with
\* its `what` set.
clickProcessed == ~ign /\ hass /\ tl.exists /\ view # NoView

\* The signals of a click handler among the effects f, in order.
clickSignals(f) ==
    LET g == SelectSeq(f, LAMBDA e : /\ e.src = "click"
                                     /\ e.op \in {"view", "thumbnails:open", "thumbnails:close"})
    IN  [i \in DOMAIN g |-> g[i].op]

\* C18: a click on an item among the results of the view emits the view with
\* that item selected; a click on another item issues an event query for the
\* widget's window, and when it answers a view is emitted only if it has
\* results.  The emitted view carries the click time as its seek time.
C18_ItemClickSelectsOrQueries ==
    /\ clickProcessed =>
          \A c \in {k \in Clicks : k[1] = "item" /\ k[2] # NoId} :
              LET s == _timelineClickHandler(Cur, c[1], c[2], c[3], c[4])
              IN  IF view.qr /\ c[2] \in view.results
                  THEN /\ "view" \in {clickSignals(s.fx)[i] : i \in DOMAIN clickSignals(s.fx)}
                       /\ s.pending = [view EXCEPT !.selected = c[2], !.seek = c[3]]
                       /\ s.tasks = tasks
                  ELSE /\ clickSignals(s.fx) = <<>>
                       /\ \E i \in DOMAIN s.fx :
                              /\ s.fx[i].op = "query"
                              /\ s.fx[i].w = getCacheFriendlyEventWindow(tl.window)
                       /\ s.over \/ \E t \in s.tasks \ tasks :
                                        /\ t.kind = "click" /\ t.pc = "query"
                                        /\ t.item = c[2] /\ t.time = c[3]
    /\ \A t \in tasks : (t.kind = "click" /\ t.pc = "query") =>
          \A v \in Answers(t) :
              LET s == clickAfterQuery(Resume(Cur, t), t, v)
              IN  "view" \in {clickSignals(s.fx)[i] : i \in DOMAIN clickSignals(s.fx)} =>
                      /\ v # NoView /\ hasResults(v)
                      /\ hasResults(s.pending)
                      /\ s.pending.results = v.results
                      /\ s.pending.seek = t.time

\* A click on an item that the view does not have has been answered with a
\* view with results, which was emitted.
C18_Witness ==
    /\ Did("click", {"view"})
    /\ ~view.qr
    /\ hasResults(pending) /\ pending.seek # NoTime

\* C19: a request for recordings is made only with recordings shown, and the
\* request of a click on the axis is for the hour of its target time and for
\* the cameras of this timeline (cameraIDs when set, else all cameras).
C19_AxisClickRequestsHour ==
    [][\A i \in DOMAIN fx' :
          fx'[i].op = "recordings" =>
              /\ cfg.show_recordings
              /\ fx'[i].w # NoWindow =>
                    /\ fx'[i].w = Win(startOfHour(fx'[i].time), endOfHour(fx'[i].time))
                    /\ fx'[i].cams = _getTimelineCameraIDs]_vars

\* The signals a click handler may end with, for the view v of that time.
clickTailOk(v, f) ==
    \/ clickSignals(f) = <<"view", "thumbnails:open">> /\ isTimelineView(v)
    \/ clickSignals(f) = <<"view">> /\ ~isTimelineView(v)
    \/ clickSignals(f) = <<"thumbnails:close">> /\ isTimelineView(v)
    \/ clickSignals(f) = <<>> /\ ~isTimelineView(v)

\* C20: a click handler that is not suppressed ends with the view-change and
\* then thumbnails:open (on a timeline view), with the view-change alone (on
\* another view), or with thumbnails:close and no view-change (no view
\* produced, on a timeline view); never with open and close both.  A view that
\* createViewForRecordings produced is emitted.
C20_ClickEndsWithOneSignal ==
    /\ clickProcessed =>
          \A c \in {k \in Clicks : k[1] # ""} :
              LET s == _timelineClickHandler(Cur, c[1], c[2], c[3], c[4])
              IN  (s.tasks = tasks /\ ~s.over) => clickTailOk(view, s.fx)
    /\ \A t \in tasks : t.kind = "click" =>
          /\ t.pc = "query" =>
                \A v \in Answers(t) :
                    clickTailOk(view, clickAfterQuery(Resume(Cur, t), t, v).fx)
          /\ t.pc = "recordings" =>
                \A v \in {NoView} \cup createViewForRecordings(t.base) :
                    LET s == clickAfterRecordings(Resume(Cur, t), t, v)
                    IN  /\ clickTailOk(view, s.fx)
                        /\ v # NoView <=> (/\ clickSignals(s.fx) # <<>>
                                           /\ clickSignals(s.fx)[1] = "view"
                                           /\ s.pending = v)

\* A click on a timeline view has produced a view: view-change, then open.
C20_Witness ==
    /\ isTimelineView(view)
    /\ clickSignals(fx) = <<"view", "thumbnails:open">>

\* What a handler may not touch when it is a no-op: the effects, the
\* suspended handlers, the dispatched view, the marker, the ignore-click flag
\* and the pointer hold.
inert(s, r) ==
    /\ r.fx = s.fx
    /\ r.tasks = s.tasks
    /\ r.pending = s.pending
    /\ r.barVisible = s.barVisible
    /\ r.tl.bar = s.tl.bar
    /\ r.ign = s.ign
    /\ r.hold = s.hold

\* C21: with a required collaborator missing (here: hass not set, on a widget
\* that exists), every handler is a silent no-op: the synchronization cycle,
\* the intermediate range change, the finalization and the click emit
\* nothing, issue no refresh and no query, and leave the marker, the
\* ignore-click flag and the pointer hold as they are.
C21_MissingCollaboratorNoOp ==
    (~hass /\ tl.exists) =>
        /\ inert(Cur, _updateTimelineFromView(Cur))
        /\ \A w \in DragWindows, k \in RangeKinds :
              LET s0 == IF k[1] THEN [Cur EXCEPT !.tl.window = w] ELSE Cur
              IN  inert(s0, _timelineRangeChangeHandler(s0, w, k[1], k[2], k[3]))
        /\ inert(Cur, _timelineRangeChangedHandler(Cur, tl.window, TRUE))
        /\ \A c \in Clicks : inert(Cur, _timelineClickHandler(Cur, c[1], c[2], c[3], c[4]))

\* C25: when the component is built or rebuilt and the groups are empty, no
\* widget is created and the user is shown the notice that there are no
\* cameras, in mini mode as well as outside it.
C25_EmptyGroupsNotice ==
    hass =>
        \A v \in {NoView, EventView} :
            LET s0 == IF v # NoView THEN [Cur EXCEPT !.view = v] ELSE Cur
                s == updatedConfig(s0, TRUE, v # NoView)
            IN  /\ ~s.tl.exists
                /\ \E i \in DOMAIN s.fx : s.fx[i].op = "message"

C23_PrefetchIsThreeLengths ==
    tl.exists =>
        LET w == tl.window
            len == w.end - w.start
            p == _getPrefetchWindow(w)
        IN  /\ p = Win(w.start - len, w.end + len)
            /\ p.end - p.start = 3 * len
            /\ p.start + p.end = w.start + w.end

\* C26: every window passed to refresh, by the synchronization cycle and by
\* the finalization, is the desired or finalized window widened by one
\* window length on each side, and is never the visible window itself.
C26_RefreshGetsPrefetchWindow ==
    [][\A t \in tasks' \ tasks :
          t.pc = "refresh" =>
              LET x == IF t.kind = "sync" THEN t.dw ELSE t.tw
                  len == x.end - x.start
              IN  /\ \E i \in DOMAIN fx' : fx'[i].op = "refresh"
                  /\ \A i \in DOMAIN fx' :
                        fx'[i].op = "refresh" =>
                            /\ fx'[i].w = Win(x.start - len, x.end + len)
                            /\ fx'[i].w # tl'.window]_vars

\* The media and the configured windows (in seconds) the ideal window is
\* computed for: events and recordings with and without their bounds,
\* shorter and longer than the window.
TestMedia ==
    { m \in [kind : {"event", "recording", "none"},
             start : {NoTime} \cup (20 .. 22),
             end : {NoTime} \cup (20 .. 30)] :
        (m.start # NoTime /\ m.end # NoTime) => m.start <= m.end }
TestWindowSeconds == 1 .. 3

rewriteFirst(f, id) ==
    \E j \in DOMAIN f :
        /\ f[j].op = "rewrite" /\ f[j].id = id
        /\ \A i \in DOMAIN f : f[i].op = "setSelection" => j < i

\* C27 as stated: in every synchronization cycle with clustering enabled and
\* a selected item, the data source is asked to rewrite the item, before the
\* selection is applied to the widget.
C27_RewriteInEveryCycle ==
    [][/\ \A t \in tasks \ tasks' :
             (t.kind = "sync" /\ t.pc = "refresh" /\ t.media # NoId /\ _isClustering)
                 => rewriteFirst(fx', t.media)
       /\ \A i \in DOMAIN fx' :
             (fx'[i].src = "sync" /\ fx'[i].op = "setSelection" /\ _isClustering)
                 => rewriteFirst(fx', fx'[i].id)]_vars

\* C27, amended: in every synchronization cycle that gets there with no
\* pointer hold, with clustering enabled and a selected item, the data source
\* is asked to rewrite the item, before the selection is applied to the
\* widget.
C27_RewriteBeforeSelection ==
    [][~hold.held =>
          /\ \A t \in tasks \ tasks' :
                (t.kind = "sync" /\ t.pc = "refresh" /\ t.media # NoId /\ _isClustering)
                    => rewriteFirst(fx', t.media)
          /\ \A i \in DOMAIN fx' :
                (fx'[i].src = "sync" /\ fx'[i].op = "setSelection" /\ _isClustering)
                    => rewriteFirst(fx', fx'[i].id)]_vars

\* A cycle without a hold has rewritten the selected event and selected it.
C27_Witness ==
    /\ ~hold.held
    /\ _isClustering
    /\ Did("sync", {"rewrite"})
    /\ Did("sync", {"setSelection"})
    /\ rewriteFirst(fx, "e1")

\* C28: there is one target-time marker at most and the flag agrees with the
\* widget: the marker is added only when the flag says it is absent, moved
\* when it is present, removed only when it is present, one operation a step
\* at most; without a widget the flag says absent.
C28_MarkerFlagAgrees ==
    /\ [](/\ barVisible <=> tl.bar # NoTime
          /\ ~tl.exists => ~barVisible)
    /\ [][LET ops == {i \in DOMAIN fx' : fx'[i].src = "bar"}
          IN  /\ Cardinality(ops) <= 1
              /\ \A i \in ops :
                    /\ fx'[i].op = "addCustomTime" =>
                          /\ ~barVisible /\ tl.bar = NoTime
                          /\ barVisible' /\ tl'.bar = fx'[i].w.start
                    /\ fx'[i].op = "setCustomTime" =>
                          /\ barVisible /\ tl.bar # NoTime
                          /\ barVisible' /\ tl'.bar = fx'[i].w.start
                    /\ fx'[i].op = "removeCustomTime" =>
                          /\ barVisible /\ tl.bar # NoTime
                          /\ ~barVisible' /\ tl'.bar = NoTime]_vars

\* The widget was destroyed and rebuilt during a drag that showed the marker,
\* and the drag has added the marker to the new widget.
C28_Witness ==
    /\ Did("bar", {"addCustomTime"})
    /\ barVisible
    /\ hold.held
    /\ hold.window # tl.window
    /\ tl.selection = {}
    /\ view # NoView

\* C29: the surround translates thumbnails:open and thumbnails:close, and
\* the carousel's view change as a close, into drawer:open and drawer:close
\* naming the configured side if and only if the thumbnail mode is left or
\* right; for any other mode it dispatches no drawer event.  Checked for the
\* signals of the timeline's clicks and for the carousel's view change.
C29_DrawerOnlyForSideThumbnails ==
    \A sur \in Surrounds :
        LET expected(action) ==
                IF sur.mode \in {"left", "right"}
                THEN << [op |-> action, drawer |-> sur.mode] >>
                ELSE << >>
        IN  /\ surroundRendered(sur) =>
                  \A i \in DOMAIN fx :
                      /\ fx[i].op = "thumbnails:open" =>
                            surroundOn(sur, fx[i].op) = expected("drawer:open")
                      /\ fx[i].op = "thumbnails:close" =>
                            surroundOn(sur, fx[i].op) = expected("drawer:close")
            /\ carouselRendered(sur) =>
                  surroundOn(sur, "view:change") = expected("drawer:close")
            /\ (view # NoView /\ ~surroundRendered(sur)) =>
                  \A signal \in {"thumbnails:open", "thumbnails:close", "view:change"} :
                      surroundOn(sur, signal) = << >>

\* A click on the mini timeline has signalled thumbnails:open, and a surround
\* with its thumbnails on the left asks for its left drawer to open.
C29_Witness ==
    /\ cfg.mini
    /\ Did("click", {"thumbnails:open"})
    /\ \E sur \in Surrounds :
          surroundOn(sur, "thumbnails:open") = << [op |-> "drawer:open", drawer |-> "left"] >>

\* C30: once the finalization of a drag has been handled, no view-change
\* with an older window of the drag is emitted: the call of the throttled
\* handler still pending at the finalization carries the finalized window,
\* and a view it emits after the finalization has that window in its
\* context.
C30_TrailingCallCarriesFinalWindow ==
    [][/\ \A t \in tasks' \ tasks :
             (t.kind = "changed" /\ t.pc = "refresh" /\ thr.has) => thr.w = t.tw
       /\ (~ranging /\ ~ranging' /\ DidNext("rangechange", {"view"})) =>
             /\ pending'.ctxw = tl.window
             /\ tl'.window = tl.window]_vars

\* The throttled handler has emitted a view after the finalization of the
\* drag: its pending call ran when the wait ended.
C30_Witness ==
    /\ ~ranging
    /\ Did("rangechange", {"view"})
    /\ pending.ctxw = tl.window
    /\ pending.ctxw \in DragWindows
    /\ ~thr.has

\* C31: every view-change emitted by a click on an item has the clicked item
\* as its selected result, on the direct path (the item is among the results
\* of the view) and on the fallback path (the answer of the event query): a
\* view whose query has results but not the clicked item is not emitted.
C31_ClickedItemIsSelected ==
    /\ [](clickProcessed =>
            \A c \in {k \in Clicks : k[1] = "item" /\ k[2] # NoId} :
                LET s == _timelineClickHandler(Cur, c[1], c[2], c[3], c[4])
                IN  (\E i \in DOMAIN s.fx : s.fx[i].op = "view") =>
                        getSelectedResult(s.pending) = c[2])
    /\ [][\A t \in tasks \ tasks' :
             (t.kind = "click" /\ t.pc = "query" /\ DidNext("click", {"view"}))
                 => getSelectedResult(pending') = t.item]_vars

\* C32: when a synchronization cycle has got past its refresh, the widget's
\* selection matches the view the cycle ran for: the selected result when it
\* is an event, nothing when there is no selected result or it is a
\* recording.
C32_SelectionMatchesView ==
    [][\A t \in tasks \ tasks' :
          (t.kind = "sync" /\ t.pc = "refresh" /\ tl'.exists) =>
              tl'.selection = IF t.media # NoId /\ isEvent(t.media) THEN {t.media} ELSE {}]_vars

\* The view has no window in its context and its selected result is an event
\* with a start and no end.
openEventSelected(v) ==
    /\ v # NoView
    /\ v.ctxw = NoWindow
    /\ getSelectedResult(v) # NoId
    /\ isEvent(getSelectedResult(v))
    /\ MediaOf(getSelectedResult(v)).start # NoTime
    /\ MediaOf(getSelectedResult(v)).end = NoTime

====
